---- MODULE Spec2Model ----
(***************************************************************************)
(* Sidecar supervision core of src-tauri/src/main.rs: the lock-guarded     *)
(* SidecarState, the start/stop/status commands, the close-requested hook, *)
(* the two monitor start functions and the integrity verifier.             *)
(*                                                                         *)
(* An action is a straight-line stretch of one function.  SidecarState is  *)
(* read and written only by the task that holds the lock; the handle a     *)
(* spawn returns is stored by the statement that follows it, so both are   *)
(* one action (main.rs:153-159).                                           *)
(***************************************************************************)
EXTENDS Integers, Sequences, FiniteSets, TLC

\* ---------------------------------------------------------------- bounds
\* Number of runtime tasks that can be in flight at the same time.
NTasks == 3
\* Number of operations invoked after setup over a whole run.
MaxCalls == 4
\* Longest executable (bytes) and longest digest file (characters).
MaxExeLen == 2
MaxCkLen == 3
\* Longest digest file read_checksum is run on by itself.
MaxTextLen == 4
\* Length of the read buffer (main.rs:95 uses 1024 * 1024), scaled down.
BufSize == 2

Tasks == 1..NTasks
Handles == 1..MaxCalls
\* Option::None for SidecarState.process and for a task's local child.
None == 0
NoTask == 0

\* ------------------------------------------------------------ file system
Bytes == {0, 1}
Chars == {"0", "1", "g", " "}
IoErr == -1

RECURSIVE SeqsUpTo(_, _)
SeqsUpTo(S, n) ==
    IF n = 0 THEN {<<>>}
    ELSE LET shorter == SeqsUpTo(S, n - 1)
         IN  shorter \cup {Append(s, x) : s \in {q \in shorter : Len(q) = n - 1}, x \in S}

Absent == [exists |-> FALSE, data |-> <<>>]
File(d) == [exists |-> TRUE, data |-> d]

\* Every installation the verifier can be run against.
FsUniverse ==
    [resdir : BOOLEAN,
     exe : {Absent} \cup {File(d) : d \in SeqsUpTo(Bytes, MaxExeLen)},
     ck : {Absent} \cup {File(d) : d \in SeqsUpTo(Chars, MaxCkLen)}]

\* Outcomes of the operating system for one verification: whether
\* read_to_string and File::open succeed, and what each successive
\* file.read returns (a byte count it is willing to deliver, or an error).
Schedules == SeqsUpTo((1..BufSize) \cup {IoErr}, MaxExeLen + 1)
IoOutcomes == [ckRead : BOOLEAN, open : BOOLEAN, sched : Schedules]

Min(a, b) == IF a < b THEN a ELSE b

\* ------------------------------------------------------------ read_checksum
is_whitespace(c) == c = " "

\* str::split_whitespace().next(): the first maximal run of non-whitespace
\* characters; <<>> stands for Option::None (a token is never empty).
RECURSIVE take_token(_)
take_token(s) ==
    IF s = <<>> \/ is_whitespace(Head(s)) THEN <<>>
    ELSE <<Head(s)>> \o take_token(Tail(s))

RECURSIVE split_whitespace_next(_)
split_whitespace_next(s) ==
    IF s = <<>> THEN <<>>
    ELSE IF is_whitespace(Head(s)) THEN split_whitespace_next(Tail(s))
    ELSE take_token(s)

hex_val(c) ==
    CASE c = "0" -> 0
      [] c = "1" -> 1
      [] OTHER -> -1

RECURSIVE hex_pairs(_)
hex_pairs(tok) ==
    IF tok = <<>> THEN [err |-> "", bytes |-> <<>>]
    ELSE IF hex_val(tok[1]) < 0 \/ hex_val(tok[2]) < 0
         THEN [err |-> "Invalid checksum format: Invalid character", bytes |-> <<>>]
         ELSE LET rest == hex_pairs(SubSeq(tok, 3, Len(tok)))
              IN  IF rest.err # "" THEN rest
                  ELSE [err |-> "", bytes |-> <<16 * hex_val(tok[1]) + hex_val(tok[2])>> \o rest.bytes]

\* Vec::<u8>::from_hex: an odd length is rejected first, then each pair of
\* digits becomes one byte.
from_hex(tok) ==
    IF Len(tok) % 2 # 0
    THEN [err |-> "Invalid checksum format: Odd number of digits", bytes |-> <<>>]
    ELSE hex_pairs(tok)

\* As read_checksum, but the whole contents are decoded.
read_checksum_whole_file(ck, io) ==
    IF ~io.ckRead THEN [err |-> "Failed to read checksum", bytes |-> <<>>]
    ELSE IF ck.data = <<>>
         THEN [err |-> "Checksum file missing digest", bytes |-> <<>>]
         ELSE from_hex(ck.data)

read_checksum(ck, io) ==
    IF ~io.ckRead THEN [err |-> "Failed to read checksum", bytes |-> <<>>]
    ELSE LET digest_hex == split_whitespace_next(ck.data)
         IN  IF digest_hex = <<>>
             THEN [err |-> "Checksum file missing digest", bytes |-> <<>>]
             ELSE from_hex(digest_hex)

\* ------------------------------------------------------------------ Sha256
\* The digest is an abstraction of SHA-256 with one byte of output: a
\* running state absorbed byte by byte, as the Digest trait's update does.
Sha256_new == 0

RECURSIVE Sha256_update(_, _)
Sha256_update(h, chunk) ==
    IF chunk = <<>> THEN h
    ELSE Sha256_update((16 * h + Head(chunk) + 1) % 256, Tail(chunk))

Sha256_finalize(h) == <<h>>

\* ------------------------------------------------ verify_sidecar_integrity
\* As hasher_update, but the whole buffer is hashed: hasher.update(&buffer)
hasher_update_whole_buffer(hasher, buffer, read) == Sha256_update(hasher, buffer)

\* hasher.update(&buffer[..read])
hasher_update(hasher, buffer, read) == Sha256_update(hasher, SubSeq(buffer, 1, read))

\* The loop of main.rs:96-102.  The result is [err, hasher, reads], reads
\* counting the reads that delivered data.
RECURSIVE read_loop(_, _, _, _, _)
read_loop(data, pos, hasher, buffer, sched) ==
    LET req == IF sched = <<>> THEN BufSize ELSE Head(sched)
        rest == IF sched = <<>> THEN <<>> ELSE Tail(sched)
    IN  IF req = IoErr THEN [err |-> "Failed to read sidecar", hasher |-> hasher, reads |-> 0]
        ELSE LET read == Min(req, Len(data) - pos)
             IN  IF read = 0 THEN [err |-> "", hasher |-> hasher, reads |-> 0]
                 ELSE LET filled == [i \in 1..BufSize |->
                                        IF i <= read THEN data[pos + i] ELSE buffer[i]]
                          more == read_loop(data, pos + read,
                                            hasher_update(hasher, filled, read), filled, rest)
                      IN  [more EXCEPT !.reads = @ + 1]
\* As verify_sidecar_integrity, but a missing digest file skips the check.
verify_sidecar_integrity_fail_open(fs_, io) ==
    IF ~fs_.resdir THEN "Failed to resolve sidecar path"
    ELSE IF ~fs_.exe.exists THEN "Sidecar executable not found"
    ELSE IF ~fs_.ck.exists THEN "Ok"
    ELSE LET expected == read_checksum(fs_.ck, io)
         IN  IF expected.err # "" THEN expected.err
             ELSE IF ~io.open THEN "Failed to open sidecar"
             ELSE LET looped == read_loop(fs_.exe.data, 0, Sha256_new,
                                          [i \in 1..BufSize |-> 0], io.sched)
                  IN  IF looped.err # "" THEN looped.err
                      ELSE IF Sha256_finalize(looped.hasher) # expected.bytes
                           THEN "Sidecar checksum mismatch"
                           ELSE "Ok"

verify_sidecar_integrity(fs_, io) ==
    IF ~fs_.resdir THEN "Failed to resolve sidecar path"
    ELSE IF ~fs_.exe.exists THEN "Sidecar executable not found"
    ELSE IF ~fs_.ck.exists THEN "Sidecar checksum not found"
    ELSE LET expected == read_checksum(fs_.ck, io)
         IN  IF expected.err # "" THEN expected.err
             ELSE IF ~io.open THEN "Failed to open sidecar"
             ELSE LET looped == read_loop(fs_.exe.data, 0, Sha256_new,
                                          [i \in 1..BufSize |-> 0], io.sched)
                  IN  IF looped.err # "" THEN looped.err
                      ELSE IF Sha256_finalize(looped.hasher) # expected.bytes
                           THEN "Sidecar checksum mismatch"
                           ELSE "Ok"

\* ---------------------------------------------------------------- state
VARIABLES
    process,                \* SidecarState.process: None or a handle
    port,                   \* SidecarState.port
    health_task_running,    \* SidecarState.health_task_running
    resource_task_running,  \* SidecarState.resource_task_running
    lock,                   \* the task holding the tokio Mutex, or NoTask
    op,                     \* the function each task runs
    pc,                     \* each task's position in it
    ret,                    \* each task's return value
    child,                  \* each task's local handle (child / process)
    verified,               \* result of verify_sidecar_integrity in this call
    attempted,              \* whether this call reached Command::spawn
    calls,                  \* operations invoked so far
    spawned,                \* processes spawned so far (the last handle)
    taken,                  \* successful process.take() calls so far
    kills,                  \* kill() calls issued on each handle
    health_loops,           \* health-probe loops spawned so far
    resource_loops,         \* resource-sampling loops spawned so far
    drain_tasks,            \* log-forwarding tasks spawned so far
    fs,                     \* the installed executable and digest file
    vrun,                   \* the last stand-alone verifier run
    rpc,                    \* position of the resource-sampling loop
    snapshot,               \* the sample of this cycle and its throttled flag
    target,                 \* contents of mesh/resource_state.json
    tmp,                    \* contents of mesh/resource_state.tmp
    prev,                   \* target when this write_json_atomic call began
    write_result,           \* result of this cycle's write_json_atomic
    emit_result,            \* result of this cycle's emit_all
    ckrun,                  \* the last stand-alone read_checksum run
    exited,                 \* handles whose process exited on its own
    kill_failed,            \* a kill() returned an error, which was dropped
    stale_status,           \* a status call saw the handle of an exited process
    hloop,                  \* position of the health-probe loop
    last_probe              \* result of the loop's last check_sidecar_health

sidecar == <<process, port, health_task_running, resource_task_running>>
locals == <<child, verified, attempted>>
loops == <<health_loops, resource_loops, drain_tasks>>
history == <<spawned, taken, kills>>
vars == <<process, port, health_task_running, resource_task_running, lock,
          op, pc, ret, child, verified, attempted, calls, spawned, taken,
          kills, health_loops, resource_loops, drain_tasks, fs, vrun,
          rpc, snapshot, target, tmp, prev, write_result, emit_result, ckrun,
          exited, kill_failed, stale_status, hloop, last_probe>>
sampler == <<rpc, snapshot, target, tmp, prev, write_result, emit_result>>
\* What the supervisor's functions never touch, but for the three noted below.
rest == <<sampler, ckrun, exited, kill_failed, stale_status, hloop, last_probe>>

NotRun == [ran |-> FALSE, faulty |-> FALSE, chunks |-> 0, result |-> "none"]
NotRead == [ran |-> FALSE, err |-> "", bytes |-> <<>>]

Commands == {"start_sidecar", "stop_sidecar", "sidecar_status"}
Monitors == {"start_health_monitor", "start_resource_monitor"}

\* ------------------------------------------------------- resource samples
\* Option<f32> and Option<bool> of the sensor readings.
NoneF == [some |-> FALSE, val |-> 0]
NoneB == [some |-> FALSE, val |-> FALSE]
Some(v) == [some |-> TRUE, val |-> v]

opt_zip(a, b) == IF a.some /\ b.some THEN Some(<<a.val, b.val>>) ELSE NoneB
unwrap_or(o, d) == IF o.some THEN o.val ELSE d

\* Readings of one cycle: cpu usage, cpu temperature, battery, AC power.
Samples ==
    [cpu : {10, 70, 75},
     temp : {NoneF, Some(40), Some(85), Some(90)},
     bat : {NoneF, Some(20), Some(30)},
     ac : {NoneB, Some(TRUE), Some(FALSE)}]

\* The readings the sampling loop is run with.
SampleCases ==
    {[cpu |-> 75, temp |-> NoneF, bat |-> NoneF, ac |-> NoneB],
     [cpu |-> 10, temp |-> Some(90), bat |-> NoneF, ac |-> NoneB],
     [cpu |-> 10, temp |-> Some(40), bat |-> Some(20), ac |-> Some(TRUE)],
     [cpu |-> 10, temp |-> Some(40), bat |-> Some(20), ac |-> Some(FALSE)]}

too_hot(temp) == temp > 85
low_on_battery(pair) == pair[1] < 30 /\ ~pair[2]

\* Option::map with each of the two closures.
map_too_hot(o) == IF o.some THEN Some(too_hot(o.val)) ELSE NoneB
map_low_on_battery(o) == IF o.some THEN Some(low_on_battery(o.val)) ELSE NoneB

\* As throttled, but a missing AC reading counts as not on AC.
throttled_ac_defaulted(s) ==
    \/ s.cpu > 70
    \/ unwrap_or(map_too_hot(s.temp), FALSE)
    \/ (s.bat.some /\ s.bat.val < 30 /\ ~unwrap_or(s.ac, FALSE))

\* main.rs:319-324
throttled(s) ==
    \/ s.cpu > 70
    \/ unwrap_or(map_too_hot(s.temp), FALSE)
    \/ unwrap_or(map_low_on_battery(opt_zip(s.bat, s.ac)), FALSE)

NoSnapshot == [taken |-> FALSE, cpu |-> 0, temp |-> NoneF, bat |-> NoneF, ac |-> NoneB,
               throttled |-> FALSE]

\* main.rs:315-333 without the timestamp.
take_snapshot(s) ==
    [taken |-> TRUE, cpu |-> s.cpu, temp |-> s.temp, bat |-> s.bat, ac |-> s.ac,
     throttled |-> throttled(s)]

json_num(o) == IF o.some THEN ToString(o.val) ELSE "null"
json_bool(b) == IF b THEN "true" ELSE "false"

\* payload.to_string(): the fields of the JSON object, in order.
payload_to_string(snap) ==
    <<ToString(snap.cpu), json_num(snap.temp), json_num(snap.bat),
      IF snap.ac.some THEN json_bool(snap.ac.val) ELSE "null",
      json_bool(snap.throttled)>>

\* A file as write_json_atomic leaves it: the payload and a newline.
written(snap) == File(payload_to_string(snap) \o <<"\n">>)

\* The installations the supervisor is run against: a digest file that
\* matches the executable and one that holds the digest of another file.
FsCases ==
    {[resdir |-> TRUE, exe |-> File(<<0>>), ck |-> File(<<"0", "1", " ">>)],
     [resdir |-> TRUE, exe |-> File(<<1>>), ck |-> File(<<"0", "1">>)]}

\* Every result the verifier can return for an installation, over all
\* outcomes of the operating system.
VerifyResults == [f \in FsCases |-> {verify_sidecar_integrity(f, io) : io \in IoOutcomes}]

\* SidecarState::new() and the setup closure of main: the state is managed
\* and one task running start_resource_monitor has been spawned.
SetupState ==
    /\ process = None
    /\ port = 8000
    /\ health_task_running = FALSE
    /\ resource_task_running = FALSE
    /\ lock = NoTask
    /\ op = [t \in Tasks |-> IF t = 1 THEN "start_resource_monitor" ELSE "none"]
    /\ pc = [t \in Tasks |-> IF t = 1 THEN "rm_lock" ELSE "idle"]
    /\ ret = [t \in Tasks |-> "pending"]
    /\ child = [t \in Tasks |-> None]
    /\ verified = [t \in Tasks |-> "none"]
    /\ attempted = [t \in Tasks |-> FALSE]
    /\ calls = 0
    /\ spawned = 0
    /\ taken = 0
    /\ kills = [h \in Handles |-> 0]
    /\ health_loops = 0
    /\ resource_loops = 0
    /\ drain_tasks = 0
    /\ vrun = NotRun
    /\ rpc = "none"
    /\ snapshot = NoSnapshot
    /\ tmp = Absent
    /\ prev = Absent
    /\ write_result = "none"
    /\ emit_result = "none"
    /\ ckrun = NotRead
    /\ exited = {}
    /\ kill_failed = FALSE
    /\ stale_status = FALSE
    /\ hloop = "none"
    /\ last_probe = "none"

Init == SetupState /\ fs \in FsCases /\ target = Absent

\* tokio::sync::Mutex::lock().await completes only when no task holds it.
can_lock == lock = NoTask

entry(o) ==
    CASE o = "start_sidecar" -> "start_lock"
      [] o = "stop_sidecar" -> "stop_lock"
      [] o = "sidecar_status" -> "status_lock"
      [] o = "close_requested" -> "close_lock"
      [] o = "start_health_monitor" -> "hm_lock"
      [] o = "start_resource_monitor" -> "rm_lock"

begin(t, o) ==
    /\ pc[t] \in {"idle", "done"}
    /\ calls < MaxCalls
    /\ calls' = calls + 1
    /\ op' = [op EXCEPT ![t] = o]
    /\ pc' = [pc EXCEPT ![t] = entry(o)]
    /\ ret' = [ret EXCEPT ![t] = "pending"]
    /\ child' = [child EXCEPT ![t] = None]
    /\ verified' = [verified EXCEPT ![t] = "none"]
    /\ attempted' = [attempted EXCEPT ![t] = FALSE]
    /\ UNCHANGED <<sidecar, lock, history, loops, fs, vrun, rest>>

\* The front end invokes one of the registered commands.
invoke_handler(t, c) == begin(t, c)

\* A tauri://close-requested event spawns the cleanup task.
close_requested(t) == begin(t, "close_requested")

\* A caller invokes one of the monitor start functions.
call_monitor(t, m) == begin(t, m)

finish(t, r) ==
    /\ pc' = [pc EXCEPT ![t] = "done"]
    /\ ret' = [ret EXCEPT ![t] = r]

goto(t, l) ==
    /\ pc' = [pc EXCEPT ![t] = l]
    /\ UNCHANGED ret

\* ------------------------------------------------------------ sidecar_status
\* As sidecar_status, but the stored child is asked whether it still runs.
sidecar_status_checks_exit(t) ==
    /\ pc[t] = "status_lock"
    /\ can_lock
    /\ finish(t, IF process # None /\ process \notin exited THEN "Ok(true)" ELSE "Ok(false)")
    /\ stale_status' = (stale_status \/ (process # None /\ process \in exited))
    /\ UNCHANGED <<sidecar, lock, op, locals, calls, history, loops, fs, vrun,
                   sampler, ckrun, exited, kill_failed, hloop, last_probe>>

\* main.rs:132-136
sidecar_status(t) ==
    /\ pc[t] = "status_lock"
    /\ can_lock
    /\ finish(t, IF process # None THEN "Ok(true)" ELSE "Ok(false)")
    /\ stale_status' = (stale_status \/ (process # None /\ process \in exited))
    /\ UNCHANGED <<sidecar, lock, op, locals, calls, history, loops, fs, vrun,
                   sampler, ckrun, exited, kill_failed, hloop, last_probe>>

\* ------------------------------------------------------------- start_sidecar
\* As start_sidecar_lock, without the is_some() check.
start_sidecar_lock_no_check(t) ==
    /\ pc[t] = "start_lock"
    /\ can_lock
    /\ goto(t, "start_verify") /\ lock' = t
    /\ UNCHANGED <<sidecar, op, locals, calls, history, loops, fs, vrun, rest>>

\* As start_sidecar_lock, but a stored handle is reported as an error.
start_sidecar_lock_already_err(t) ==
    /\ pc[t] = "start_lock"
    /\ can_lock
    /\ IF process # None
       THEN finish(t, "Sidecar already running") /\ UNCHANGED lock
       ELSE goto(t, "start_verify") /\ lock' = t
    /\ UNCHANGED <<sidecar, op, locals, calls, history, loops, fs, vrun, rest>>

\* main.rs:143-146: take the lock; a stored handle means already running.
start_sidecar_lock(t) ==
    /\ pc[t] = "start_lock"
    /\ can_lock
    /\ IF process # None
       THEN finish(t, "Ok(true)") /\ UNCHANGED lock
       ELSE goto(t, "start_verify") /\ lock' = t
    /\ UNCHANGED <<sidecar, op, locals, calls, history, loops, fs, vrun, rest>>
\* As start_sidecar_verify, but a failed verification is only a warning.
start_sidecar_verify_warn_only(t) ==
    /\ pc[t] = "start_verify"
    /\ \E r \in VerifyResults[fs] :
          /\ verified' = [verified EXCEPT ![t] = r]
          /\ goto(t, "start_spawn") /\ UNCHANGED lock
    /\ UNCHANGED <<sidecar, op, child, attempted, calls, history, loops, fs, vrun, rest>>

\* As start_sidecar_verify, but the failure path leaks the guard.
start_sidecar_verify_keeps_lock(t) ==
    /\ pc[t] = "start_verify"
    /\ \E r \in VerifyResults[fs] :
          /\ verified' = [verified EXCEPT ![t] = r]
          /\ IF r # "Ok"
             THEN finish(t, r)
             ELSE goto(t, "start_spawn")
    /\ UNCHANGED <<sidecar, lock, op, child, attempted, calls, history, loops, fs, vrun, rest>>

\* main.rs:148-150: the verifier runs while the guard is held.
start_sidecar_verify(t) ==
    /\ pc[t] = "start_verify"
    /\ \E r \in VerifyResults[fs] :
          /\ verified' = [verified EXCEPT ![t] = r]
          /\ IF r # "Ok"
             THEN finish(t, r) /\ lock' = NoTask
             ELSE goto(t, "start_spawn") /\ UNCHANGED lock
    /\ UNCHANGED <<sidecar, op, child, attempted, calls, history, loops, fs, vrun, rest>>

SpawnOutcomes == {"Ok", "Failed to configure sidecar", "Failed to start sidecar"}
\* As start_sidecar_spawn, but start_health_monitor is never called.
start_sidecar_spawn_no_monitor(t) ==
    /\ pc[t] = "start_spawn"
    /\ \E outcome \in SpawnOutcomes :
          /\ attempted' = [attempted EXCEPT ![t] = outcome # "Failed to configure sidecar"]
          /\ IF outcome = "Ok"
             THEN /\ spawned' = spawned + 1
                  /\ child' = [child EXCEPT ![t] = spawned + 1]
                  /\ process' = spawned + 1
                  /\ drain_tasks' = drain_tasks + 1
                  /\ finish(t, "Ok(true)")
             ELSE /\ finish(t, outcome)
                  /\ UNCHANGED <<spawned, child, process, drain_tasks>>
    /\ lock' = NoTask
    /\ UNCHANGED <<port, health_task_running, resource_task_running, op, verified,
                   calls, taken, kills, health_loops, resource_loops, fs, vrun, rest>>

\* As start_sidecar_spawn, but health_task_running is set before the spawn.
start_sidecar_spawn_flag_first(t) ==
    /\ pc[t] = "start_spawn"
    /\ \E outcome \in SpawnOutcomes :
          /\ attempted' = [attempted EXCEPT ![t] = outcome # "Failed to configure sidecar"]
          /\ IF outcome = "Ok"
             THEN /\ spawned' = spawned + 1
                  /\ child' = [child EXCEPT ![t] = spawned + 1]
                  /\ process' = spawned + 1
                  /\ drain_tasks' = drain_tasks + 1
                  /\ goto(t, "hm_lock")
             ELSE /\ finish(t, outcome)
                  /\ UNCHANGED <<spawned, child, process, drain_tasks>>
    /\ lock' = NoTask
    /\ health_task_running' = TRUE
    /\ UNCHANGED <<port, resource_task_running, op, verified,
                   calls, taken, kills, health_loops, resource_loops, fs, vrun, rest>>

\* main.rs:152-171: configure and spawn the command; on success store the
\* handle, drop the guard and spawn the log-forwarding task.
start_sidecar_spawn(t) ==
    /\ pc[t] = "start_spawn"
    /\ \E outcome \in SpawnOutcomes :
          /\ attempted' = [attempted EXCEPT ![t] = outcome # "Failed to configure sidecar"]
          /\ IF outcome = "Ok"
             THEN /\ spawned' = spawned + 1
                  /\ child' = [child EXCEPT ![t] = spawned + 1]
                  /\ process' = spawned + 1
                  /\ drain_tasks' = drain_tasks + 1
                  /\ goto(t, "hm_lock")
             ELSE /\ finish(t, outcome)
                  /\ UNCHANGED <<spawned, child, process, drain_tasks>>
    /\ lock' = NoTask
    /\ UNCHANGED <<port, health_task_running, resource_task_running, op, verified,
                   calls, taken, kills, health_loops, resource_loops, fs, vrun, rest>>

\* ------------------------------------------------------ start_health_monitor
\* What the caller of start_health_monitor gets when it returns: start_sidecar
\* goes on to return Ok(true) (main.rs:173-174).
monitor_returns(t) == finish(t, IF op[t] = "start_sidecar" THEN "Ok(true)" ELSE "()")
\* As start_health_monitor_lock, but the guard is dropped after the check.
start_health_monitor_lock_dropped(t) ==
    /\ pc[t] = "hm_lock"
    /\ can_lock
    /\ IF health_task_running
       THEN monitor_returns(t)
       ELSE goto(t, "hm_set")
    /\ UNCHANGED <<sidecar, lock, op, locals, calls, history, loops, fs, vrun, rest>>

\* main.rs:111-114
start_health_monitor_lock(t) ==
    /\ pc[t] = "hm_lock"
    /\ can_lock
    /\ IF health_task_running
       THEN monitor_returns(t) /\ UNCHANGED lock
       ELSE goto(t, "hm_set") /\ lock' = t
    /\ UNCHANGED <<sidecar, op, locals, calls, history, loops, fs, vrun, rest>>

\* main.rs:115-129
start_health_monitor_set(t) ==
    /\ pc[t] = "hm_set"
    /\ health_task_running' = TRUE
    /\ lock' = NoTask
    /\ health_loops' = health_loops + 1
    /\ hloop' = "sleep"
    /\ monitor_returns(t)
    /\ UNCHANGED <<process, port, resource_task_running, op, locals, calls, history,
                   resource_loops, drain_tasks, fs, vrun,
                   sampler, ckrun, exited, kill_failed, stale_status, last_probe>>

\* ---------------------------------------------------- start_resource_monitor
\* main.rs:300-303
start_resource_monitor_lock(t) ==
    /\ pc[t] = "rm_lock"
    /\ can_lock
    /\ IF resource_task_running
       THEN finish(t, "()") /\ UNCHANGED lock
       ELSE goto(t, "rm_set") /\ lock' = t
    /\ UNCHANGED <<sidecar, op, locals, calls, history, loops, fs, vrun, rest>>

\* main.rs:304-341
start_resource_monitor_set(t) ==
    /\ pc[t] = "rm_set"
    /\ resource_task_running' = TRUE
    /\ lock' = NoTask
    /\ resource_loops' = resource_loops + 1
    /\ rpc' = "sample"
    /\ finish(t, "()")
    /\ UNCHANGED <<process, port, health_task_running, op, locals, calls, history,
                   health_loops, drain_tasks, fs, vrun,
                   snapshot, target, tmp, prev, write_result, emit_result,
                   ckrun, exited, kill_failed, stale_status, hloop, last_probe>>

\* -------------------------------------------------------------- stop_sidecar
\* As stop_sidecar_take, but the handle is copied and stays stored.
stop_sidecar_take_no_clear(t) ==
    /\ pc[t] = "stop_lock"
    /\ can_lock
    /\ IF process # None
       THEN /\ child' = [child EXCEPT ![t] = process]
            /\ lock' = t
            /\ goto(t, "stop_kill")
       ELSE /\ finish(t, "Ok(false)")
            /\ UNCHANGED <<child, lock>>
    /\ UNCHANGED <<sidecar, op, verified, attempted, calls, history, loops, fs, vrun, rest>>

\* As stop_sidecar_take, but stopping also marks the health task as stopped.
stop_sidecar_take_resets_flag(t) ==
    /\ pc[t] = "stop_lock"
    /\ can_lock
    /\ IF process # None
       THEN /\ child' = [child EXCEPT ![t] = process]
            /\ process' = None
            /\ health_task_running' = FALSE
            /\ taken' = taken + 1
            /\ lock' = t
            /\ goto(t, "stop_kill")
       ELSE /\ finish(t, "Ok(false)")
            /\ UNCHANGED <<child, process, health_task_running, taken, lock>>
    /\ UNCHANGED <<port, resource_task_running, op, verified,
                   attempted, calls, spawned, kills, loops, fs, vrun, rest>>

\* main.rs:179-180 and 183-185: guard.process.take()
stop_sidecar_take(t) ==
    /\ pc[t] = "stop_lock"
    /\ can_lock
    /\ IF process # None
       THEN /\ child' = [child EXCEPT ![t] = process]
            /\ process' = None
            /\ taken' = taken + 1
            /\ lock' = t
            /\ goto(t, "stop_kill")
       ELSE /\ finish(t, "Ok(false)")
            /\ UNCHANGED <<child, process, taken, lock>>
    /\ UNCHANGED <<port, health_task_running, resource_task_running, op, verified,
                   attempted, calls, spawned, kills, loops, fs, vrun, rest>>
\* As stop_sidecar_kill, but the result of kill() is propagated with `?`.
stop_sidecar_kill_propagates(t) ==
    /\ pc[t] = "stop_kill"
    /\ kills' = [kills EXCEPT ![child[t]] = @ + 1]
    /\ lock' = NoTask
    /\ \E r \in {"Ok(true)", "Failed to kill sidecar"} : finish(t, r)
    /\ UNCHANGED <<sidecar, op, locals, calls, spawned, taken, loops, fs, vrun,
                   sampler, ckrun, exited, kill_failed, stale_status, hloop, last_probe>>

\* What CommandChild::kill can return: killing a process that is gone may
\* be reported as an error.
kill_outcomes(h) == IF h \in exited THEN {"Ok", "Err"} ELSE {"Ok"}

\* As stop_sidecar_kill, but the result of kill() is unwrapped.
stop_sidecar_kill_unwrap(t) ==
    /\ pc[t] = "stop_kill"
    /\ kills' = [kills EXCEPT ![child[t]] = @ + 1]
    /\ lock' = NoTask
    /\ \E r \in kill_outcomes(child[t]) :
          /\ kill_failed' = (kill_failed \/ r = "Err")
          /\ finish(t, IF r = "Err" THEN "panicked" ELSE "Ok(true)")
    /\ UNCHANGED <<sidecar, op, locals, calls, spawned, taken, loops, fs, vrun,
                   sampler, ckrun, exited, stale_status, hloop, last_probe>>

\* main.rs:181-182: kill the taken child and drop the result; the guard
\* drops on return.
stop_sidecar_kill(t) ==
    /\ pc[t] = "stop_kill"
    /\ kills' = [kills EXCEPT ![child[t]] = @ + 1]
    /\ lock' = NoTask
    /\ \E r \in kill_outcomes(child[t]) : kill_failed' = (kill_failed \/ r = "Err")
    /\ finish(t, "Ok(true)")
    /\ UNCHANGED <<sidecar, op, locals, calls, spawned, taken, loops, fs, vrun,
                   sampler, ckrun, exited, stale_status, hloop, last_probe>>

\* ------------------------------------------------- close-requested handler
\* main.rs:360-361
close_requested_take(t) ==
    /\ pc[t] = "close_lock"
    /\ can_lock
    /\ IF process # None
       THEN /\ child' = [child EXCEPT ![t] = process]
            /\ process' = None
            /\ taken' = taken + 1
            /\ lock' = t
            /\ goto(t, "close_kill")
       ELSE /\ finish(t, "()")
            /\ UNCHANGED <<child, process, taken, lock>>
    /\ UNCHANGED <<port, health_task_running, resource_task_running, op, verified,
                   attempted, calls, spawned, kills, loops, fs, vrun, rest>>

\* main.rs:362-365
close_requested_kill(t) ==
    /\ pc[t] = "close_kill"
    /\ kills' = [kills EXCEPT ![child[t]] = @ + 1]
    /\ lock' = NoTask
    /\ \E r \in kill_outcomes(child[t]) : kill_failed' = (kill_failed \/ r = "Err")
    /\ finish(t, "()")
    /\ UNCHANGED <<sidecar, op, locals, calls, spawned, taken, loops, fs, vrun,
                   sampler, ckrun, exited, stale_status, hloop, last_probe>>

\* ----------------------------------------------------------- specification
Next ==
    \/ \E t \in Tasks, c \in Commands : invoke_handler(t, c)
    \/ \E t \in Tasks : close_requested(t)
    \/ \E t \in Tasks, m \in Monitors : call_monitor(t, m)
    \/ \E t \in Tasks : sidecar_status(t)
    \/ \E t \in Tasks : start_sidecar_lock(t)
    \/ \E t \in Tasks : start_sidecar_verify(t)
    \/ \E t \in Tasks : start_sidecar_spawn(t)
    \/ \E t \in Tasks : start_health_monitor_lock(t)
    \/ \E t \in Tasks : start_health_monitor_set(t)
    \/ \E t \in Tasks : start_resource_monitor_lock(t)
    \/ \E t \in Tasks : start_resource_monitor_set(t)
    \/ \E t \in Tasks : stop_sidecar_take(t)
    \/ \E t \in Tasks : stop_sidecar_kill(t)
    \/ \E t \in Tasks : close_requested_take(t)
    \/ \E t \in Tasks : close_requested_kill(t)

Spec == Init /\ [][Next]_vars

\* The steps of the call task t runs, each of them to its return.
Step(t) ==
    \/ sidecar_status(t)
    \/ start_sidecar_lock(t)
    \/ start_sidecar_verify(t)
    \/ start_sidecar_spawn(t)
    \/ start_health_monitor_lock(t)
    \/ start_health_monitor_set(t)
    \/ start_resource_monitor_lock(t)
    \/ start_resource_monitor_set(t)
    \/ stop_sidecar_take(t)
    \/ stop_sidecar_kill(t)
    \/ close_requested_take(t)
    \/ close_requested_kill(t)

\* The runtime polls every task that can run, and tokio's Mutex hands the
\* lock to its waiters in the order they asked: a task that can take a step
\* again and again does take it.
SpecFair == Init /\ [][Next]_vars /\ \A t \in Tasks : SF_vars(Step(t))

\* The sidecar is a process of its own: it can exit at any time before it is
\* killed, and the stored handle knows nothing of it.
external_exit ==
    /\ \E h \in 1..spawned :
          /\ h \notin exited
          /\ kills[h] = 0
          /\ exited' = exited \cup {h}
    /\ UNCHANGED <<sidecar, lock, op, pc, ret, locals, calls, history, loops, fs, vrun,
                   sampler, ckrun, kill_failed, stale_status, hloop, last_probe>>

NextExit == Next \/ external_exit
SpecExit == Init /\ [][NextExit]_vars

\* The verifier on its own, over every installation and every outcome of
\* the operating system's reads.
InitVerify == SetupState /\ fs \in FsUniverse /\ target = Absent

\* Whether the operating system failed an operation of this run, and how
\* many chunks the reads delivered the executable in.
RECURSIVE has_io_err(_)
has_io_err(sched) == sched # <<>> /\ (Head(sched) = IoErr \/ has_io_err(Tail(sched)))

faulty_io(io) == ~io.ckRead \/ ~io.open \/ has_io_err(io.sched)

chunks_read(f, io) ==
    IF f.exe.exists
    THEN read_loop(f.exe.data, 0, Sha256_new, [i \in 1..BufSize |-> 0], io.sched).reads
    ELSE 0

verify_apply ==
    /\ ~vrun.ran
    /\ \E io \in IoOutcomes :
          vrun' = [ran |-> TRUE, faulty |-> faulty_io(io), chunks |-> chunks_read(fs, io),
                   result |-> verify_sidecar_integrity(fs, io)]
    /\ UNCHANGED <<sidecar, lock, op, pc, ret, locals, calls, history, loops, fs, rest>>

NextVerify == verify_apply

SpecVerify == InitVerify /\ [][NextVerify]_vars

\* ------------------------------------------- resource loop, main.rs:311-340
loop_vars == <<sidecar, lock, op, pc, ret, locals, calls, history, loops, fs, vrun,
               ckrun, exited, kill_failed, stale_status, hloop, last_probe>>

\* main.rs:312-333: read the sensors and build the payload; the call of
\* write_json_atomic begins.
resource_loop_sample ==
    /\ rpc = "sample"
    /\ \E s \in SampleCases : snapshot' = take_snapshot(s)
    /\ prev' = target
    /\ write_result' = "none"
    /\ emit_result' = "none"
    /\ rpc' = "create_dir"
    /\ UNCHANGED <<target, tmp, loop_vars>>

\* As write_fails, but the loop propagates the error and ends.
write_fails_and_breaks(msg) ==
    /\ write_result' = msg
    /\ rpc' = "stopped"

\* A step of write_json_atomic returns Err; main.rs:336 drops it.
write_fails(msg) ==
    /\ write_result' = msg
    /\ rpc' = "emit"

write_goes_on(l) ==
    /\ rpc' = l
    /\ UNCHANGED write_result

\* main.rs:197-200
write_json_atomic_create_dir ==
    /\ rpc = "create_dir"
    /\ \/ write_goes_on("create_tmp")
       \/ write_fails("Failed to create parent")
    /\ UNCHANGED <<snapshot, target, tmp, prev, emit_result, loop_vars>>

\* As write_json_atomic_create_tmp, but the target itself is created.
write_json_atomic_create_target ==
    /\ rpc = "create_tmp"
    /\ \/ write_goes_on("write_payload") /\ target' = File(<<>>)
       \/ write_fails("Failed to create tmp") /\ UNCHANGED target
    /\ UNCHANGED <<snapshot, tmp, prev, emit_result, loop_vars>>

\* main.rs:201-203: File::create makes the sibling empty.
write_json_atomic_create_tmp ==
    /\ rpc = "create_tmp"
    /\ \/ write_goes_on("write_payload") /\ tmp' = File(<<>>)
       \/ write_fails("Failed to create tmp") /\ UNCHANGED tmp
    /\ UNCHANGED <<snapshot, target, prev, emit_result, loop_vars>>

\* main.rs:204-206: write_all delivers the whole payload or fails after a
\* part of it.
write_json_atomic_write_payload ==
    /\ rpc = "write_payload"
    /\ LET payload == payload_to_string(snapshot)
       IN  \E n \in 0..Len(payload) :
             /\ tmp' = File(tmp.data \o SubSeq(payload, 1, n))
             /\ IF n = Len(payload)
                THEN write_goes_on("write_newline")
                ELSE write_fails("Failed to write tmp")
    /\ UNCHANGED <<snapshot, target, prev, emit_result, loop_vars>>

\* main.rs:207-209
write_json_atomic_write_newline ==
    /\ rpc = "write_newline"
    /\ \/ write_goes_on("flush") /\ tmp' = File(tmp.data \o <<"\n">>)
       \/ write_fails("Failed to write newline") /\ UNCHANGED tmp
    /\ UNCHANGED <<snapshot, target, prev, emit_result, loop_vars>>

\* main.rs:210
write_json_atomic_flush ==
    /\ rpc = "flush"
    /\ \/ write_goes_on("sync")
       \/ write_fails("Failed to flush")
    /\ UNCHANGED <<snapshot, target, tmp, prev, emit_result, loop_vars>>

\* main.rs:211-213
write_json_atomic_sync ==
    /\ rpc = "sync"
    /\ \/ write_goes_on("rename")
       \/ write_fails("Failed to sync")
    /\ UNCHANGED <<snapshot, target, tmp, prev, emit_result, loop_vars>>

\* main.rs:214-216: the sibling replaces the target in one step.
write_json_atomic_rename ==
    /\ rpc = "rename"
    /\ \/ /\ target' = tmp
          /\ tmp' = Absent
          /\ write_result' = "Ok"
          /\ rpc' = "emit"
       \/ write_fails("Failed to move") /\ UNCHANGED <<target, tmp>>
    /\ UNCHANGED <<snapshot, prev, emit_result, loop_vars>>

\* main.rs:337: the result of emit_all is dropped.
resource_loop_emit ==
    /\ rpc = "emit"
    /\ \E r \in {"Ok", "Err"} : emit_result' = r
    /\ rpc' = "sleep"
    /\ UNCHANGED <<snapshot, target, tmp, prev, write_result, loop_vars>>

\* main.rs:339
resource_loop_sleep ==
    /\ rpc = "sleep"
    /\ rpc' = "sample"
    /\ UNCHANGED <<snapshot, target, tmp, prev, write_result, emit_result, loop_vars>>

\* The host process is interrupted; the files stay as they are.
crash ==
    /\ rpc \notin {"none", "crashed"}
    /\ rpc' = "crashed"
    /\ UNCHANGED <<snapshot, target, tmp, prev, write_result, emit_result, loop_vars>>

\* What an earlier run of the host may have left at the target path.
EarlierTargets == {Absent} \cup {written(take_snapshot(s)) : s \in SampleCases}

InitSampler ==
    /\ SetupState
    /\ fs = [resdir |-> TRUE, exe |-> Absent, ck |-> Absent]
    /\ target \in EarlierTargets

LoopStep ==
    \/ resource_loop_sample
    \/ write_json_atomic_create_dir
    \/ write_json_atomic_create_tmp
    \/ write_json_atomic_write_payload
    \/ write_json_atomic_write_newline
    \/ write_json_atomic_flush
    \/ write_json_atomic_sync
    \/ write_json_atomic_rename
    \/ resource_loop_emit
    \/ resource_loop_sleep

SetupTask ==
    \/ \E t \in Tasks : start_resource_monitor_lock(t)
    \/ \E t \in Tasks : start_resource_monitor_set(t)

NextSampler == SetupTask \/ LoopStep \/ crash

\* The sampling loop from setup on, with interruptions of the host.
SpecSampler == InitSampler /\ [][NextSampler]_vars

NextSamplerLive == SetupTask \/ LoopStep

\* The sampling loop of a host that keeps running: the runtime schedules
\* the setup task and the loop, and each of their steps ends.
SpecSamplerFair ==
    /\ InitSampler
    /\ [][NextSamplerLive]_vars
    /\ WF_vars(SetupTask)
    /\ WF_vars(LoopStep)

\* The throttling rule on its own, over every combination of readings.
throttle_apply ==
    /\ ~snapshot.taken
    /\ \E s \in Samples : snapshot' = take_snapshot(s)
    /\ UNCHANGED <<rpc, target, tmp, prev, write_result, emit_result, loop_vars>>

SpecThrottle == Init /\ [][throttle_apply]_vars

\* ------------------------------------------------------- health-probe loop
\* What the two-second connect attempt of check_sidecar_health can come to.
ConnectOutcomes == {"connected", "refused", "unreachable", "timeout"}

\* main.rs:40-47: never an Err
check_sidecar_health(c) == IF c = "connected" THEN "Ok(true)" ELSE "Ok(false)"

probe_others == <<sidecar, lock, op, pc, ret, locals, calls, history, loops, fs, vrun,
                  sampler, ckrun, exited, kill_failed, stale_status>>

\* main.rs:121
health_loop_sleep ==
    /\ hloop = "sleep"
    /\ hloop' = "probe"
    /\ UNCHANGED <<probe_others, last_probe>>

\* As health_loop_probe, but a failed probe drops the handle and ends the loop.
health_loop_probe_gives_up ==
    /\ hloop = "probe"
    /\ \E c \in ConnectOutcomes :
          LET r == check_sidecar_health(c)
          IN  IF r = "Ok(true)"
              THEN /\ last_probe' = "Ok(true)"
                   /\ hloop' = "sleep"
                   /\ UNCHANGED process
              ELSE /\ last_probe' = "Ok(false), warned"
                   /\ hloop' = "ended"
                   /\ process' = None
    /\ UNCHANGED <<port, health_task_running, resource_task_running, lock, op, pc, ret,
                   locals, calls, history, loops, fs, vrun,
                   sampler, ckrun, exited, kill_failed, stale_status>>

\* main.rs:122-127: probe the port read at line 116; a failure is logged.
health_loop_probe ==
    /\ hloop = "probe"
    /\ \E c \in ConnectOutcomes :
          LET r == check_sidecar_health(c)
          IN  last_probe' = IF r = "Ok(true)" THEN "Ok(true)" ELSE "Ok(false), warned"
    /\ hloop' = "sleep"
    /\ UNCHANGED probe_others

NextProbe == Next \/ health_loop_sleep \/ health_loop_probe
SpecProbe == Init /\ [][NextProbe]_vars

\* read_checksum on its own, over every digest file.
InitChecksum ==
    /\ SetupState
    /\ target = Absent
    /\ fs \in [resdir : {TRUE}, exe : {Absent},
               ck : {File(d) : d \in SeqsUpTo(Chars, MaxTextLen)}]

read_checksum_apply ==
    /\ ~ckrun.ran
    /\ \E readable \in BOOLEAN :
          LET r == read_checksum(fs.ck, [ckRead |-> readable, open |-> TRUE, sched |-> <<>>])
          IN  ckrun' = [ran |-> TRUE, err |-> r.err, bytes |-> r.bytes]
    /\ UNCHANGED <<sidecar, lock, op, pc, ret, locals, calls, history, loops, fs, vrun,
                   sampler, exited, kill_failed, stale_status, hloop, last_probe>>

SpecChecksum == InitChecksum /\ [][read_checksum_apply]_vars

\* ------------------------------------------------------------------ claims
IsErr(r) == r \notin {"pending", "Ok(true)", "Ok(false)", "()"}

\* C1: under every interleaving of start, stop, status and the close hook,
\* the number of spawns minus the number of successful takes is 0 or 1, and
\* it is 1 exactly when SidecarState.process is Some.
C1_AtMostOneProcess ==
    /\ spawned - taken \in {0, 1}
    /\ (spawned - taken = 1) <=> (process # None)

\* A second process is stored after the first was taken, while another
\* start is waiting for the lock.
C1_Witness ==
    /\ spawned = 2 /\ taken = 1 /\ process = 2
    /\ \E t \in Tasks : pc[t] = "start_lock"

\* C2: a spawn is attempted only after verify_sidecar_integrity returned
\* success within the same start call; when it returns a failure, start
\* returns that failure and attempts no spawn.
C2_VerifyBeforeSpawn ==
    \A t \in Tasks :
        /\ pc[t] = "start_spawn" => verified[t] = "Ok"
        /\ attempted[t] => verified[t] = "Ok"
        /\ (op[t] = "start_sidecar" /\ child[t] # None) => verified[t] = "Ok"
        /\ verified[t] \notin {"none", "Ok"} =>
              /\ pc[t] = "done"
              /\ ret[t] = verified[t]
              /\ ~attempted[t]
              /\ child[t] = None

\* One start was refused by the verifier while another one, verified, has
\* attempted its spawn.
C2_Witness ==
    \E t, u \in Tasks :
        /\ verified[t] = "Failed to read sidecar" /\ ret[t] = "Failed to read sidecar"
        /\ attempted[u] /\ child[u] # None

HealthCallers == {t \in Tasks : pc[t] \in {"hm_lock", "hm_set"}}

\* C3: however the monitor start functions are invoked, at most one loop
\* of each kind is ever spawned, exactly one once an invocation has passed
\* its critical section, and no two invocations are past the flag check.
C3_OneLoopEach ==
    /\ health_loops = (IF health_task_running THEN 1 ELSE 0)
    /\ resource_loops = (IF resource_task_running THEN 1 ELSE 0)
    /\ Cardinality({t \in Tasks : pc[t] = "hm_set"}) <= 1
    /\ Cardinality({t \in Tasks : pc[t] = "rm_set"}) <= 1
    /\ \A t \in Tasks :
          /\ pc[t] = "hm_set" => ~health_task_running
          /\ pc[t] = "rm_set" => ~resource_task_running
          /\ (pc[t] = "done" /\ op[t] = "start_resource_monitor") => resource_loops = 1
          /\ (pc[t] = "done" /\ op[t] = "start_health_monitor") => health_loops = 1
          /\ (pc[t] = "done" /\ op[t] = "start_sidecar" /\ child[t] # None) => health_loops = 1

\* Two invocations of start_health_monitor race: one is between the check
\* and the set, the other waits for the lock; the resource loop runs.
C3_Witness ==
    /\ \E t, u \in Tasks : pc[t] = "hm_set" /\ pc[u] = "hm_lock"
    /\ resource_loops = 1

\* C4: a start that finds a handle stored returns Ok(true) without
\* verifying, without spawning and without changing SidecarState, so two
\* starts with no take in between spawn one process.
C4_AlreadyRunningNoOp ==
    [][\A t \in Tasks :
          (pc[t] = "start_lock" /\ pc'[t] # "start_lock" /\ process # None) =>
              /\ pc'[t] = "done"
              /\ ret'[t] = "Ok(true)"
              /\ verified'[t] = "none"
              /\ ~attempted'[t]
              /\ child'[t] = None
              /\ UNCHANGED <<sidecar, lock, history, loops>>]_vars

\* A second start has returned Ok(true) without verification while the one
\* process spawned so far is still stored.
C4_Witness ==
    \E t \in Tasks :
        /\ op[t] = "start_sidecar" /\ pc[t] = "done" /\ ret[t] = "Ok(true)"
        /\ verified[t] = "none"
        /\ spawned = 1 /\ taken = 0 /\ process = 1

Killers == {t \in Tasks : pc[t] \in {"stop_kill", "close_kill"}}

\* C5: kill is issued at most once on a handle, and only on a handle that
\* has been taken out of SidecarState: a task about to kill holds a handle
\* no longer stored, never killed before and held by no other task.
C5_SingleKiller ==
    /\ \A h \in Handles : kills[h] <= 1 /\ (kills[h] = 1 => process # h)
    /\ \A t \in Killers :
          /\ child[t] # None
          /\ process # child[t]
          /\ kills[child[t]] = 0
          /\ \A u \in Killers \ {t} : child[u] # child[t]

\* A stop and the close hook have both run against the one process that
\* was spawned, and exactly one kill was issued on it.
C5_Witness ==
    \E t, u \in Tasks :
        /\ op[t] = "stop_sidecar" /\ pc[t] = "done"
        /\ op[u] = "close_requested" /\ pc[u] = "done"
        /\ spawned = 1 /\ kills[1] = 1

SpawningStartReturned(t) ==
    op[t] = "start_sidecar" /\ pc[t] = "done" /\ ret[t] = "Ok(true)" /\ child[t] # None

C7_FailedStartNoEffect ==
    [][\A t \in Tasks :
          (pc[t] \in {"start_verify", "start_spawn"} /\ pc'[t] = "done") =>
              /\ IsErr(ret'[t])
              /\ process = None /\ process' = None
              /\ UNCHANGED <<sidecar, history, loops>>
              /\ child'[t] = None
              /\ lock = t /\ lock' = NoTask]_vars

\* A start failed and a later start succeeded: the handle spawned by u is
\* still stored, so u's critical section came after the failure of t (had t
\* come later, it would have found that handle or a taken one never stored
\* again).
C7_Witness ==
    \E t, u \in Tasks :
        /\ op[t] = "start_sidecar" /\ pc[t] = "done" /\ IsErr(ret[t])
        /\ ret[t] = "Failed to start sidecar"
        /\ op[u] = "start_sidecar" /\ child[u] # None /\ process = child[u]
        /\ spawned = 1

\* C8: stop returns Ok(true) iff a handle was stored when it acquired the
\* state and Ok(false) otherwise, never an error, and when it returns no
\* handle is stored.
C8_StopResult ==
    [][\A t \in Tasks :
          /\ (pc[t] = "stop_lock" /\ pc'[t] # "stop_lock") =>
                IF process # None
                THEN pc'[t] = "stop_kill" /\ child'[t] = process /\ process' = None
                ELSE pc'[t] = "done" /\ ret'[t] = "Ok(false)" /\ process' = None
          /\ (pc[t] = "stop_kill" /\ pc'[t] # "stop_kill") =>
                pc'[t] = "done" /\ ret'[t] = "Ok(true)" /\ process' = None
          /\ (op'[t] = "stop_sidecar" /\ pc'[t] = "done") =>
                /\ ret'[t] \in {"Ok(true)", "Ok(false)"}
                /\ (ret'[t] = "Ok(true)") <=> (child'[t] # None)]_vars

\* One stop stopped the only process spawned and another stop found none.
C8_Witness ==
    \E t, u \in Tasks :
        /\ op[t] = "stop_sidecar" /\ pc[t] = "done" /\ ret[t] = "Ok(true)"
        /\ op[u] = "stop_sidecar" /\ pc[u] = "done" /\ ret[u] = "Ok(false)"
        /\ spawned = 1 /\ process = None

\* The digest a digest file announces: its first token decoded from hex.
announced(f) == from_hex(split_whitespace_next(f.ck.data))
valid_digest(f) == split_whitespace_next(f.ck.data) # <<>> /\ announced(f).err = ""
\* The hash of the executable taken in one piece.
whole_hash(f) == Sha256_finalize(Sha256_update(Sha256_new, f.exe.data))
installed(f) == f.resdir /\ f.exe.exists /\ f.ck.exists

\* C9: for an executable and a digest file whose first token is valid hex,
\* read without I/O error, the verifier succeeds iff the hash of the whole
\* executable equals the decoded digest, however the reads split the file.
C9_VerifyIffHashEqual ==
    (vrun.ran /\ ~vrun.faulty /\ installed(fs) /\ valid_digest(fs)) =>
        ((vrun.result = "Ok") <=> (whole_hash(fs) = announced(fs).bytes))

\* A two-byte executable delivered in two reads verifies against its digest.
C9_Witness ==
    /\ vrun.ran /\ ~vrun.faulty /\ installed(fs) /\ valid_digest(fs)
    /\ Len(fs.exe.data) = 2 /\ vrun.chunks = 2
    /\ vrun.result = "Ok"

Unparsable == {"Checksum file missing digest",
               "Invalid checksum format: Odd number of digits",
               "Invalid checksum format: Invalid character"}

\* C10: the verifier fails closed and its error tells the failure apart:
\* executable absent, digest file absent, digest file without a token or
\* not hex, and digest mismatch each have their own error, returned exactly
\* in that case, and success is returned in none of them.
C10_DistinctFailures ==
    (vrun.ran /\ fs.resdir) =>
        /\ (vrun.result = "Sidecar executable not found") <=> ~fs.exe.exists
        /\ (vrun.result = "Sidecar checksum not found") <=> (fs.exe.exists /\ ~fs.ck.exists)
        /\ ~vrun.faulty =>
              /\ (vrun.result \in Unparsable) <=> (installed(fs) /\ ~valid_digest(fs))
              /\ (vrun.result = "Sidecar checksum mismatch") <=>
                    (installed(fs) /\ valid_digest(fs) /\ whole_hash(fs) # announced(fs).bytes)
        /\ (vrun.result = "Ok") =>
              (installed(fs) /\ valid_digest(fs) /\ whole_hash(fs) = announced(fs).bytes)

\* The verifier has rejected a digest file whose first token has an even
\* number of characters, one of them not a hex digit.
C10_Witness ==
    /\ vrun.ran /\ ~vrun.faulty /\ installed(fs)
    /\ fs.ck.data = <<"g", "0", " ">>
    /\ vrun.result = "Invalid checksum format: Invalid character"

\* C11: through every step of write_json_atomic, a failing step or an
\* interruption included, the target holds either what it held when the call
\* began or the new payload followed by a newline; only the rename changes
\* it, and it always holds a whole file of an earlier or this cycle.
C11_AtomicReplace ==
    [][/\ snapshot'.taken => target' \in {prev', written(snapshot')}
       /\ target' \in {Absent} \cup {written(take_snapshot(s)) : s \in SampleCases}
       /\ target' # target =>
             /\ rpc = "rename"
             /\ target' = tmp
             /\ target' = written(snapshot)]_vars

\* The host was interrupted after the sibling was written in full and
\* before the rename: the target still holds the earlier file.
C11_Witness ==
    /\ rpc = "crashed"
    /\ tmp = written(snapshot)
    /\ target.exists /\ target = prev /\ target # tmp

\* C12: throttled is true iff cpu usage > 70, or a temperature is present
\* and > 85, or battery and AC are both present with battery < 30 and not on
\* AC; the four cases the specification lists come out as listed.
C12_ThrottledRule ==
    snapshot.taken =>
        /\ snapshot.throttled <=>
              \/ snapshot.cpu > 70
              \/ (snapshot.temp.some /\ snapshot.temp.val > 85)
              \/ (snapshot.bat.some /\ snapshot.ac.some
                    /\ snapshot.bat.val < 30 /\ ~snapshot.ac.val)
        /\ (snapshot.cpu = 75 /\ ~snapshot.temp.some /\ ~snapshot.bat.some /\ ~snapshot.ac.some)
              => snapshot.throttled
        /\ (snapshot.cpu = 10 /\ snapshot.temp = Some(90)) => snapshot.throttled
        /\ (snapshot.cpu = 10 /\ snapshot.temp = Some(40) /\ snapshot.bat = Some(20)
              /\ snapshot.ac = Some(TRUE)) => ~snapshot.throttled
        /\ (snapshot.cpu = 10 /\ snapshot.temp = Some(40) /\ snapshot.bat = Some(20)
              /\ ~snapshot.ac.some) => ~snapshot.throttled

\* A low battery with no AC reading has not tripped the flag.
C12_Witness ==
    /\ snapshot.taken /\ ~snapshot.throttled
    /\ snapshot.cpu = 10 /\ snapshot.temp = Some(40)
    /\ snapshot.bat = Some(20) /\ ~snapshot.ac.some

CycleFailed == write_result \notin {"none", "Ok"} \/ emit_result = "Err"

\* C17: a failed write or a failed emit never stops the sampling loop: the
\* failure is dropped, the loop reaches its sleep and then the next cycle,
\* and under fair scheduling it keeps starting new cycles.
C17_LoopNeverStops ==
    /\ [](rpc \in {"none", "sample", "create_dir", "create_tmp", "write_payload",
                   "write_newline", "flush", "sync", "rename", "emit", "sleep"})
    /\ (rpc = "emit" /\ CycleFailed) ~> (rpc = "sleep" /\ CycleFailed)
    /\ (rpc = "sleep" /\ CycleFailed) ~> (rpc = "sample" /\ CycleFailed)
    /\ (rpc = "sample") ~> (rpc = "create_dir")
    /\ []<>(rpc = "sample")

\* A cycle whose write and emit both failed has slept, and the loop is at
\* the start of the next cycle.
C17_Witness ==
    /\ rpc = "sample"
    /\ write_result = "Failed to write tmp"
    /\ emit_result = "Err"

\* s[i..j] is the first whitespace-delimited token of s.
IsFirstToken(s, i, j) ==
    /\ 1 <= i /\ i <= j /\ j <= Len(s)
    /\ \A k \in 1..(i - 1) : s[k] = " "
    /\ \A k \in i..j : s[k] # " "
    /\ j = Len(s) \/ s[j + 1] = " "

DigitValue == [c \in {"0", "1"} |-> IF c = "0" THEN 0 ELSE 1]
ValidHex(tok) == Len(tok) % 2 = 0 /\ \A k \in 1..Len(tok) : tok[k] \in DOMAIN DigitValue
Decoded(tok) ==
    [k \in 1..(Len(tok) \div 2) |-> 16 * DigitValue[tok[2 * k - 1]] + DigitValue[tok[2 * k]]]

\* C15: when the first whitespace-delimited token of a readable digest file
\* is valid hex, read_checksum returns the bytes decoded from that token
\* alone, whatever surrounds it; a file with no token is an error.
C15_FirstTokenOnly ==
    (ckrun.ran /\ ckrun.err # "Failed to read checksum") =>
        LET s == fs.ck.data
        IN  /\ \A i, j \in 1..Len(s) :
                  IsFirstToken(s, i, j) =>
                      LET tok == SubSeq(s, i, j)
                      IN  IF ValidHex(tok)
                          THEN ckrun.err = "" /\ ckrun.bytes = Decoded(tok)
                          ELSE ckrun.err # ""
            /\ (\A k \in 1..Len(s) : s[k] = " ") => ckrun.err = "Checksum file missing digest"

\* The digest was read from a file whose first token is followed by text
\* that is not hex.
C15_Witness ==
    /\ ckrun.ran /\ ckrun.err = ""
    /\ fs.ck.data = <<"0", "1", " ", "g">>
    /\ ckrun.bytes = <<1>>

\* C13: a stop() that finds the handle of a process that has already exited
\* takes the handle, kills it with the result dropped, and returns Ok(true)
\* with the lock released; no stop ever ends in a panic or an error.
C13_StopAfterExit ==
    [][\A t \in Tasks :
          /\ (pc[t] = "stop_lock" /\ pc'[t] # "stop_lock" /\ process \in exited) =>
                pc'[t] = "stop_kill" /\ child'[t] = process /\ process' = None
          /\ (pc[t] = "stop_kill" /\ pc'[t] # "stop_kill" /\ child[t] \in exited) =>
                /\ pc'[t] = "done" /\ ret'[t] = "Ok(true)"
                /\ process' = None /\ lock' = NoTask
          /\ (op'[t] = "stop_sidecar" /\ pc'[t] = "done") =>
                ret'[t] \in {"Ok(true)", "Ok(false)"}]_vars

\* The only process spawned exited, then a stop killed its handle, the
\* kill failed, and the stop returned Ok(true).
C13_Witness ==
    \E t \in Tasks :
        /\ op[t] = "stop_sidecar" /\ pc[t] = "done" /\ ret[t] = "Ok(true)"
        /\ spawned = 1 /\ child[t] = 1 /\ 1 \in exited
        /\ kill_failed /\ process = None /\ lock = NoTask

\* C14: a status call returns Ok(true) exactly when a handle is stored at
\* the moment it holds the lock, never an error, and changes nothing; a
\* stored handle goes away only when stop or the close-requested hook takes
\* it, never because the process exited.
C14_StatusIsHandlePresence ==
    [][/\ \A t \in Tasks :
             (pc[t] = "status_lock" /\ pc'[t] # "status_lock") =>
                 /\ lock = NoTask
                 /\ pc'[t] = "done"
                 /\ ret'[t] = (IF process # None THEN "Ok(true)" ELSE "Ok(false)")
                 /\ UNCHANGED <<sidecar, lock, history, exited, kill_failed>>
       /\ (process # None /\ process' # process) =>
             /\ process' = None
             /\ \E t \in Tasks :
                   \/ pc[t] = "stop_lock" /\ pc'[t] = "stop_kill"
                   \/ pc[t] = "close_lock" /\ pc'[t] = "close_kill"
       /\ (exited' # exited) => process' = process]_vars

\* A status call answered Ok(true) for a process that had exited, and the
\* handle is still stored.
C14_Witness ==
    /\ stale_status
    /\ process # None /\ process \in exited
    /\ \E t \in Tasks : op[t] = "sidecar_status" /\ pc[t] = "done" /\ ret[t] = "Ok(true)"

\* C16: the lock is released before any long-lived operation: no task holds
\* it while start_sidecar verifies the binary or spawns the process, and it
\* is free again whenever a call has returned.
C16_LockReleasedBeforeLongOps ==
    \A t \in Tasks :
        /\ pc[t] \in {"start_verify", "start_spawn"} => lock # t
        /\ pc[t] \in {"idle", "done"} => lock # t

\* C18: every step of the health-probe loop, whatever the probe found,
\* leaves the process handle, port, flags, lock and every call untouched,
\* spawns and kills nothing, and leaves the loop running: after a probe the
\* loop is asleep again, with a warning logged when the probe failed.
C18_ProberObservesOnly ==
    [][(hloop # "none" /\ (hloop' # hloop \/ last_probe' # last_probe)) =>
          /\ UNCHANGED <<sidecar, lock, op, pc, ret, locals, history, loops, exited>>
          /\ hloop' \in {"sleep", "probe"}
          /\ hloop = "probe" =>
                (hloop' = "sleep" /\ last_probe' \in {"Ok(true)", "Ok(false), warned"})
          /\ hloop = "sleep" => (hloop' = "probe" /\ last_probe' = last_probe)]_vars

\* A probe failed while a process was stored, and the loop went on to its
\* next probe with the handle still there.
C18_Witness ==
    /\ last_probe = "Ok(false), warned"
    /\ hloop = "probe"
    /\ process # None /\ health_task_running /\ health_loops = 1

\* C19: a task-running flag that is true stays true through every step,
\* stop and the close-requested hook included; a loop that runs keeps
\* running, and no second loop of either kind is ever created.
C19_FlagsMonotonic ==
    [][/\ health_task_running => health_task_running'
       /\ resource_task_running => resource_task_running'
       /\ health_loops' >= health_loops /\ resource_loops' >= resource_loops
       /\ health_task_running => health_loops' = health_loops
       /\ resource_task_running => resource_loops' = resource_loops
       /\ health_loops' <= 1 /\ resource_loops' <= 1
       /\ hloop # "none" => hloop' \in {"sleep", "probe"}]_vars

\* Start, stop, start again: the second process is stored, every call has
\* returned, and there is still the one health loop, which runs.
C19_Witness ==
    /\ spawned = 2 /\ taken = 1 /\ process = 2
    /\ health_task_running /\ health_loops = 1 /\ hloop \in {"sleep", "probe"}
    /\ \A t \in Tasks : pc[t] \in {"idle", "done"}
    /\ \E t \in Tasks : op[t] = "stop_sidecar" /\ ret[t] = "Ok(true)" /\ kills[1] = 1

LockPoints == {"start_lock", "hm_lock", "rm_lock", "stop_lock", "status_lock", "close_lock"}
HoldPoints == {"start_verify", "start_spawn", "hm_set", "rm_set", "stop_kill", "close_kill"}

\* C20: a call that has returned, or has not begun, does not hold the lock;
\* a call about to acquire the lock does not hold it already; the lock is
\* held only by a call between its acquire and its release; and, with a fair
\* lock and scheduler, every call that has begun returns.
C20_NoDeadlock ==
    /\ [](\A t \in Tasks : pc[t] \in {"idle", "done"} \cup LockPoints => lock # t)
    /\ [](lock # NoTask => pc[lock] \in HoldPoints)
    /\ \A t \in Tasks : (pc[t] \in LockPoints) ~> (lock = t \/ pc[t] = "done")
    /\ \A t \in Tasks : (pc[t] \notin {"idle", "done"}) ~> (pc[t] = "done")

\* Three calls have returned with the lock free: a start that spawned and
\* went through start_health_monitor, a start refused by the integrity
\* check or the spawn, and a stop that killed.
C20_Witness ==
    /\ lock = NoTask
    /\ \E t, u, v \in Tasks :
          /\ pc[t] = "done" /\ op[t] = "start_sidecar" /\ ret[t] = "Ok(true)" /\ attempted[t]
          /\ pc[u] = "done" /\ op[u] = "start_sidecar" /\ IsErr(ret[u])
          /\ pc[v] = "done" /\ op[v] = "stop_sidecar" /\ ret[v] = "Ok(true)"
====
